---- MODULE Spec2Model ----
(***************************************************************************)
(* Model of noc_kpi_dashboard.py: one run of the Streamlit script over an  *)
(* uploaded KPI table.  The script is sequential; pc is its position.      *)
(* Rows are records; a DataFrame is a sequence of rows (its row order),    *)
(* each row carrying its index label idx (the CSV line it came from).      *)
(* Dates are day numbers (the value pd.to_datetime yields, line 47).       *)
(***************************************************************************)
EXTENDS Integers, Sequences, FiniteSets, TLC

\* ---- bounds of the model ------------------------------------------------
MaxRows == 3          \* rows of an uploaded file (general runs)
MaxFilterRows == 2    \* rows of an uploaded file (runs with sidebar filters)
PrbLow == 50          \* lowest PRB of the classification runs
PrbHigh == 105        \* highest PRB of the classification runs

\* ---- program constants --------------------------------------------------
ThresholdMin == 70        \* slider "PRB Congestion Threshold", line 61
ThresholdMax == 100
ThresholdDefault == 85
DaysMin == 1              \* slider "Min Consecutive Days", line 62
DaysMax == 7
WarningBand == 15         \* classify, line 86

\* ---- input domains ------------------------------------------------------
Bands == {"L"}
Dates == {1, 2}
PrbValues == {80, 90}
All == "All"

Row(d, s, c, b, p) == [date |-> d, site |-> s, sector |-> c, band |-> b, prb |-> p]

\* the (site, sector) pairs of the input files: two sectors of one site for
\* the general runs, a second site as well for the runs with filters
SectorsOfA == {<<"A", "1">>, <<"A", "2">>}
Cells == SectorsOfA \cup {<<"B", "1">>}

Rows(cells, dates, prbs) ==
    {Row(d, c[1], c[2], b, p) : d \in dates, c \in cells, b \in Bands, p \in prbs}

\* all files of at most n rows over a row domain
Tables(dom, n) == UNION {[1..k -> dom] : k \in 0..n}

VARIABLES
    uploaded,   \* the file uploader holds a file (line 25)
    file,       \* the rows of the uploaded CSV, in file order
    session,    \* the values the sidebar widgets hold for this run
    pc,         \* position of the script
    df,         \* the DataFrame df
    site, sector, band, threshold, consecutive_days_required,
    start_date, end_date,
    status, congested_flag, consecutive,   \* the derived columns of df
    major_alarm,
    ranking

vars == <<uploaded, file, session, pc, df, site, sector, band, threshold,
          consecutive_days_required, start_date, end_date, status,
          congested_flag, consecutive, major_alarm, ranking>>

\* ---- helpers ------------------------------------------------------------
Range(s) == {s[i] : i \in DOMAIN s}

Perms(n) == {p \in [1..n -> 1..n] : \A i, j \in 1..n : i # j => p[i] # p[j]}

\* df[col].unique()
Unique(rows, col) == {rows[i][col] : i \in DOMAIN rows}

\* pd.read_csv: every row gets its position as index label (RangeIndex)
ReadCsv(rows) ==
    [i \in DOMAIN rows |->
        [idx |-> i, date |-> rows[i].date, site |-> rows[i].site,
         sector |-> rows[i].sector, band |-> rows[i].band, prb |-> rows[i].prb]]

\* mutant of SortValuesDate: the frame is left in file order
SortValuesDateSkipped(rows) == {rows}

\* df.sort_values("date"): the default sort is not stable, so rows of equal
\* date may come out in any order.  The set of possible results.
SortValuesDate(rows) ==
    LET n == Len(rows)
    IN  {[i \in 1..n |-> rows[p[i]]] :
            p \in {q \in Perms(n) :
                     \A i, j \in 1..n : i < j => rows[q[i]].date <= rows[q[j]].date}}

\* ---- APPLY FILTER, lines 67-78 ------------------------------------------
\* mutant of FilterKeeps: the two date tests joined by "or"
FilterKeepsEitherDate(r) ==
    /\ (site # All => r.site = site)
    /\ (sector # All => r.sector = sector)
    /\ (band # All => r.band = band)
    /\ (r.date >= start_date \/ r.date <= end_date)

FilterKeeps(r) ==
    /\ (site # All => r.site = site)
    /\ (sector # All => r.sector = sector)
    /\ (band # All => r.band = band)
    /\ r.date >= start_date /\ r.date <= end_date

\* ---- classify, lines 83-89 ----------------------------------------------
\* mutant of classify: strict comparison with the threshold
classifyStrict(prb) ==
    IF prb > threshold THEN "Congested"
    ELSE IF prb >= threshold - WarningBand THEN "Warning"
    ELSE "Normal"

classify(prb) ==
    IF prb >= threshold THEN "Congested"
    ELSE IF prb >= threshold - WarningBand THEN "Warning"
    ELSE "Normal"

\* ---- the run-length lambda, line 100 ------------------------------------
\* ~x
Invert(x) == [i \in DOMAIN x |-> ~x[i]]

\* Series.cumsum() of a boolean series
CumSum(b) == [i \in DOMAIN b |-> Cardinality({j \in 1..i : b[j]})]

\* x.groupby(keys).cumcount(): number of earlier rows with the same key
CumCount(keys) == [i \in DOMAIN keys |-> Cardinality({j \in 1..(i-1) : keys[j] = keys[i]})]

\* mutant of RunLength: the count is not masked by the flag
RunLengthUnmasked(x) ==
    LET cc == CumCount(CumSum(Invert(x)))
    IN  [i \in DOMAIN x |-> cc[i] + 1]

\* lambda x: x * (x.groupby((~x).cumsum()).cumcount() + 1)
RunLength(x) ==
    LET cc == CumCount(CumSum(Invert(x)))
    IN  [i \in DOMAIN x |-> (IF x[i] THEN 1 ELSE 0) * (cc[i] + 1)]

\* mutant of GroupKey: grouping by site alone
GroupKeySiteOnly(r) == <<r.site>>

\* the grouping key of groupby(["site", "sector"])
GroupKey(r) == <<r.site, r.sector>>

\* positions of the rows of one group, in row order
GroupPositions(rows, key) ==
    SelectSeq([i \in DOMAIN rows |-> i], LAMBDA i : GroupKey(rows[i]) = key)

\* df.groupby(["site","sector"])[col].transform(f): f is applied to the column
\* values of each group in row order and the results go back to their rows
GroupTransform(rows, col) ==
    [i \in DOMAIN rows |->
        LET pos == GroupPositions(rows, GroupKey(rows[i]))
            x == [k \in DOMAIN pos |-> col[pos[k]]]
            k0 == CHOOSE k \in DOMAIN pos : pos[k] = i
        IN  RunLength(x)[k0]]

\* df with its derived columns, row by row
FrameOf(rows, st, fl, co) ==
    [i \in DOMAIN rows |->
        [idx |-> rows[i].idx, date |-> rows[i].date, site |-> rows[i].site,
         sector |-> rows[i].sector, band |-> rows[i].band, prb |-> rows[i].prb,
         status |-> st[i], congested_flag |-> fl[i], consecutive |-> co[i]]]

Frame == FrameOf(df, status, congested_flag, consecutive)

\* ---- ranking, lines 161-167 ---------------------------------------------
\* groupby(...).size().reset_index(name="congestion_days")
GroupSizes(rows) ==
    {[site |-> k[1], sector |-> k[2],
      congestion_days |->
          Cardinality({i \in DOMAIN rows : <<rows[i].site, rows[i].sector>> = k})] :
        k \in {<<rows[i].site, rows[i].sector>> : i \in DOMAIN rows}}

\* mutant of SortedByCount: ascending order
SortedByCountAscending(entries) ==
    LET n == Cardinality(entries)
    IN  {s \in [1..n -> entries] :
            /\ \A i, j \in 1..n : i # j => s[i] # s[j]
            /\ \A i, j \in 1..n : i < j => s[i].congestion_days <= s[j].congestion_days}

\* sort_values("congestion_days", ascending=False): entries of equal count
\* may come out in any order
SortedByCount(entries) ==
    LET n == Cardinality(entries)
    IN  {s \in [1..n -> entries] :
            /\ \A i, j \in 1..n : i # j => s[i] # s[j]
            /\ \A i, j \in 1..n : i < j => s[i].congestion_days >= s[j].congestion_days}

\* ---- the script ---------------------------------------------------------
\* line 27: no file in the uploader, nothing is computed
NoFile ==
    /\ pc = "upload" /\ ~uploaded
    /\ pc' = "done"
    /\ UNCHANGED <<uploaded, file, session, df, site, sector, band, threshold,
                   consecutive_days_required, start_date, end_date, status,
                   congested_flag, consecutive, major_alarm, ranking>>

\* lines 27-50: read the CSV, parse the dates, sort by date
Upload ==
    /\ pc = "upload" /\ uploaded
    /\ df' \in SortValuesDate(ReadCsv(file))
    /\ pc' = "sidebar"
    /\ UNCHANGED <<uploaded, file, session, site, sector, band, threshold,
                   consecutive_days_required, start_date, end_date, status,
                   congested_flag, consecutive, major_alarm, ranking>>

\* lines 55-65: the widgets return the values the user set; a selectbox only
\* offers "All" and the values present in df, the sliders only their range
SidebarControl ==
    /\ pc = "sidebar"
    /\ session.site \in {All} \cup Unique(df, "site")
    /\ session.sector \in {All} \cup Unique(df, "sector")
    /\ session.band \in {All} \cup Unique(df, "band")
    /\ session.threshold \in ThresholdMin..ThresholdMax
    /\ session.consecutive_days_required \in DaysMin..DaysMax
    /\ site' = session.site
    /\ sector' = session.sector
    /\ band' = session.band
    /\ threshold' = session.threshold
    /\ consecutive_days_required' = session.consecutive_days_required
    /\ start_date' = session.start_date
    /\ end_date' = session.end_date
    /\ pc' = "filter"
    /\ UNCHANGED <<uploaded, file, session, df, status, congested_flag,
                   consecutive, major_alarm, ranking>>

\* lines 67-78
ApplyFilter ==
    /\ pc = "filter"
    /\ df' = SelectSeq(df, FilterKeeps)
    /\ pc' = "classify"
    /\ UNCHANGED <<uploaded, file, session, site, sector, band, threshold,
                   consecutive_days_required, start_date, end_date, status,
                   congested_flag, consecutive, major_alarm, ranking>>

\* line 91
Classification ==
    /\ pc = "classify"
    /\ status' = [i \in DOMAIN df |-> classify(df[i].prb)]
    /\ pc' = "consecutive"
    /\ UNCHANGED <<uploaded, file, session, df, site, sector, band, threshold,
                   consecutive_days_required, start_date, end_date,
                   congested_flag, consecutive, major_alarm, ranking>>

\* mutant of MajorAlarmRows: strict comparison
MajorAlarmRowsStrict(frame) ==
    SelectSeq(frame, LAMBDA r : r.consecutive > consecutive_days_required)

\* line 103: df[df["consecutive"] >= consecutive_days_required]
MajorAlarmRows(frame) ==
    SelectSeq(frame, LAMBDA r : r.consecutive >= consecutive_days_required)

\* lines 96-103
ConsecutiveDayDetection ==
    /\ pc = "consecutive"
    /\ congested_flag' = [i \in DOMAIN df |-> df[i].prb >= threshold]
    /\ consecutive' = GroupTransform(df, congested_flag')
    /\ major_alarm' = MajorAlarmRows(FrameOf(df, status, congested_flag', consecutive'))
    /\ pc' = "ranking"
    /\ UNCHANGED <<uploaded, file, session, df, site, sector, band, threshold,
                   consecutive_days_required, start_date, end_date, status,
                   ranking>>

\* lines 161-167
Ranking ==
    /\ pc = "ranking"
    /\ ranking' \in SortedByCount(GroupSizes(SelectSeq(Frame, LAMBDA r : r.prb >= threshold)))
    /\ pc' = "done"
    /\ UNCHANGED <<uploaded, file, session, df, site, sector, band, threshold,
                   consecutive_days_required, start_date, end_date, status,
                   congested_flag, consecutive, major_alarm>>

Next ==
    \/ NoFile
    \/ Upload
    \/ SidebarControl
    \/ ApplyFilter
    \/ Classification
    \/ ConsecutiveDayDetection
    \/ Ranking

\* ---- initial states -----------------------------------------------------
\* the state at the top of the script: nothing computed yet
Blank ==
    /\ pc = "upload"
    /\ df = <<>>
    /\ site = All /\ sector = All /\ band = All
    /\ threshold = ThresholdDefault
    /\ consecutive_days_required = DaysMin
    /\ start_date = 0 /\ end_date = 0
    /\ status = <<>> /\ congested_flag = <<>> /\ consecutive = <<>>
    /\ major_alarm = <<>>
    /\ ranking = <<>>

Widgets(s, c, b, t, k, d1, d2) ==
    [site |-> s, sector |-> c, band |-> b, threshold |-> t,
     consecutive_days_required |-> k, start_date |-> d1, end_date |-> d2]

\* the selections a selectbox can hold for a file: "All" or a value of the column
Choices(rows, col) == {All} \cup Unique(rows, col)

\* general runs: any file of at most MaxRows rows, no sidebar filter, a
\* threshold between the two PRB values or equal to the higher one
Init ==
    /\ uploaded \in BOOLEAN
    /\ file \in (IF uploaded THEN Tables(Rows(SectorsOfA, Dates, PrbValues), MaxRows)
                 ELSE {<<>>})
    /\ session \in {Widgets(All, All, All, t, k, 1, 2) : t \in {85, 90}, k \in {1, 2}}
    /\ Blank

Spec == Init /\ [][Next]_vars

\* runs with sidebar filters: any file of at most MaxFilterRows rows, any
\* selection of site, sector, band and date range
InitFilter ==
    /\ uploaded \in BOOLEAN
    /\ file \in (IF uploaded THEN Tables(Rows(Cells, Dates, PrbValues), MaxFilterRows)
                 ELSE {<<>>})
    /\ session \in {Widgets(s, c, b, ThresholdDefault, DaysMin, d1, d2) :
                       s \in Choices(file, "site"),
                       c \in Choices(file, "sector"),
                       b \in Choices(file, "band"),
                       d1 \in Dates, d2 \in Dates}
    /\ Blank

SpecFilter == InitFilter /\ [][Next]_vars

\* classification runs: a one-row file of any PRB, any threshold of the slider
InitClassify ==
    /\ uploaded \in BOOLEAN
    /\ file \in (IF uploaded THEN {<<Row(1, "A", "1", "L", p)>> : p \in PrbLow..PrbHigh}
                 ELSE {<<>>})
    /\ session \in {Widgets(All, All, All, t, DaysMin, 1, 1) : t \in ThresholdMin..ThresholdMax}
    /\ Blank

SpecClassify == InitClassify /\ [][Next]_vars

\* the five-day scenario: site X, sector 1, PRB 80, 90, 92, 60, 95 on days
\* 1..5, uploaded in any row order, any setting of "Min Consecutive Days"
ScenarioPrb == <<80, 90, 92, 60, 95>>

ScenarioRows == {Row(d, "X", "1", "L", ScenarioPrb[d]) : d \in DOMAIN ScenarioPrb}

InitScenario ==
    /\ uploaded \in BOOLEAN
    /\ file \in (IF uploaded
                 THEN {f \in [1..Cardinality(ScenarioRows) -> ScenarioRows] :
                         Range(f) = ScenarioRows}
                 ELSE {<<>>})
    /\ session \in {Widgets(All, All, All, ThresholdDefault, k, 1, Len(ScenarioPrb)) :
                       k \in DaysMin..DaysMax}
    /\ Blank

SpecScenario == InitScenario /\ [][Next]_vars

\* ---- properties ---------------------------------------------------------
\* the derived columns have been computed
Computed == pc \in {"ranking", "done"}

\* the (site, sector) pair of a row
CellOf(r) == <<r.site, r.sector>>

\* positions of the rows of df of one (site, sector) pair, in row order
CellPositions(cell) == SelectSeq([i \in DOMAIN df |-> i], LAMBDA i : CellOf(df[i]) = cell)

\* a column of df restricted to one (site, sector) pair
CellColumn(col, cell) ==
    LET pos == CellPositions(cell) IN [k \in DOMAIN pos |-> col[pos[k]]]

CellsOfDf == {CellOf(df[i]) : i \in DOMAIN df}

\* the single-pass counter scan: c starts at 0; a true flag increments c and
\* yields c, a false flag resets c and yields 0
RECURSIVE CounterScan(_, _)
CounterScan(x, c) ==
    IF x = <<>> THEN <<>>
    ELSE IF Head(x) THEN <<c + 1>> \o CounterScan(Tail(x), c + 1)
    ELSE <<0>> \o CounterScan(Tail(x), 0)

\* the dates of the file are distinct within every (site, sector) pair
DistinctDates ==
    \A i, j \in DOMAIN file :
        (i # j /\ CellOf(file[i]) = CellOf(file[j])) => file[i].date # file[j].date

\* C1: within every (site, sector) group, in ascending date order (the dates
\* of a group being distinct, so that the order is determined), the column
\* consecutive equals the counter scan of the group's congested_flag values
C1_ConsecutiveIsCounterScan ==
    (Computed /\ DistinctDates) =>
        \A cell \in CellsOfDf :
            CellColumn(consecutive, cell) = CounterScan(CellColumn(congested_flag, cell), 0)

\* C2: every row gets exactly one status: Congested iff prb >= threshold,
\* Warning iff threshold - 15 <= prb < threshold, Normal iff prb < threshold - 15
C2_ClassifyTotal ==
    pc \in {"consecutive", "ranking", "done"} =>
        \A i \in DOMAIN df :
            /\ status[i] \in {"Normal", "Warning", "Congested"}
            /\ (status[i] = "Congested") <=> (df[i].prb >= threshold)
            /\ (status[i] = "Warning") <=>
                   (threshold - 15 <= df[i].prb /\ df[i].prb < threshold)
            /\ (status[i] = "Normal") <=> (df[i].prb < threshold - 15)

\* C2 witness: the lower boundary is classified: at threshold 85 a row with
\* prb = 70 is Warning
C2_Witness ==
    /\ pc = "done" /\ Len(df) = 1
    /\ threshold = 85 /\ df[1].prb = threshold - 15 /\ status[1] = "Warning"

\* C3: the major-alarm set is exactly the rows of df with consecutive >=
\* consecutive_days_required, unmodified; and for a requirement of 1 it is
\* exactly the rows with prb >= threshold
C3_MajorAlarmExact ==
    Computed =>
        /\ \A m \in DOMAIN major_alarm : major_alarm[m] \in Range(Frame)
        /\ \A m, n \in DOMAIN major_alarm : m # n => major_alarm[m].idx # major_alarm[n].idx
        /\ \A i \in DOMAIN df :
               (Frame[i] \in Range(major_alarm)) <=>
                   (consecutive[i] >= consecutive_days_required)
        /\ (consecutive_days_required = 1 =>
               {major_alarm[m].idx : m \in DOMAIN major_alarm}
                   = {df[i].idx : i \in {j \in DOMAIN df : df[j].prb >= threshold}})

\* C3 witness: requirement 1, a congested row that follows a non-congested row
\* of its group is in the alarm set, and the non-congested row is not
C3_Witness ==
    /\ Computed /\ consecutive_days_required = 1
    /\ \E i, j \in DOMAIN df :
           /\ i < j /\ CellOf(df[i]) = CellOf(df[j])
           /\ ~congested_flag[i] /\ congested_flag[j]
           /\ Frame[j] \in Range(major_alarm) /\ Frame[i] \notin Range(major_alarm)

\* the five-day scenario has been evaluated with threshold 85 and a
\* requirement of 2 consecutive days
ScenarioEvaluated ==
    /\ pc = "done" /\ uploaded
    /\ Range(file) = ScenarioRows /\ Len(df) = Len(ScenarioPrb)
    /\ threshold = 85 /\ consecutive_days_required = 2

\* C4 as stated: in the five-day scenario the major-alarm set is empty
C4_ScenarioAlarmEmpty == ScenarioEvaluated => major_alarm = <<>>

\* C4 amended: in the five-day scenario the major-alarm set is not empty: it
\* holds the day-3 row (PRB 92), the second day of the run 90, 92
C4_ScenarioAlarmHoldsDay3 ==
    ScenarioEvaluated =>
        \E m \in DOMAIN major_alarm : major_alarm[m].date = 3 /\ major_alarm[m].prb = 92

\* C4 witness: the scenario evaluated, flags F,T,T,F,T in date order
C4_Witness ==
    /\ ScenarioEvaluated
    /\ congested_flag = <<FALSE, TRUE, TRUE, FALSE, TRUE>>

\* number of rows of df of a (site, sector) pair with prb >= threshold
CongestedRows(cell) ==
    Cardinality({i \in DOMAIN df : CellOf(df[i]) = cell /\ df[i].prb >= threshold})

\* C5: the ranking has one entry per (site, sector) pair with a congested row
\* and none for any other pair, each entry counts the congested rows of its
\* pair, and the counts are in descending order
C5_RankingExact ==
    pc = "done" =>
        /\ \A e \in DOMAIN ranking :
               /\ CongestedRows(<<ranking[e].site, ranking[e].sector>>) >= 1
               /\ ranking[e].congestion_days
                      = CongestedRows(<<ranking[e].site, ranking[e].sector>>)
        /\ \A cell \in CellsOfDf :
               CongestedRows(cell) >= 1 =>
                   Cardinality({e \in DOMAIN ranking :
                                  <<ranking[e].site, ranking[e].sector>> = cell}) = 1
        /\ \A e \in DOMAIN ranking :
               e + 1 \in DOMAIN ranking =>
                   ranking[e].congestion_days >= ranking[e + 1].congestion_days

\* C5 witness: a ranking of two pairs with different counts
C5_Witness ==
    /\ pc = "done" /\ Len(ranking) = 2
    /\ ranking[1].congestion_days = 2 /\ ranking[2].congestion_days = 1

\* C6: within every group, in row order, consecutive does not decrease from a
\* congested row to the next one when both are congested, and it is 0 on
\* every row that is not congested
C6_MonotoneAndReset ==
    Computed =>
        /\ \A i \in DOMAIN df : ~congested_flag[i] => consecutive[i] = 0
        /\ \A cell \in CellsOfDf :
               LET pos == CellPositions(cell)
               IN  \A k \in DOMAIN pos :
                       (k + 1 \in DOMAIN pos /\ congested_flag[pos[k]]
                            /\ congested_flag[pos[k + 1]])
                       => consecutive[pos[k]] <= consecutive[pos[k + 1]]

\* C6 witness: a group with a non-congested row followed by two congested rows
C6_Witness ==
    /\ Computed
    /\ \E cell \in CellsOfDf :
           CellColumn(congested_flag, cell) = <<FALSE, TRUE, TRUE>>

\* the sidebar selection of this run keeps a row of the file
SessionKeeps(r) ==
    /\ (session.site # All => r.site = session.site)
    /\ (session.sector # All => r.sector = session.sector)
    /\ (session.band # All => r.band = session.band)
    /\ r.date >= session.start_date /\ r.date <= session.end_date

\* no row of the uploaded file passes the filters (or the file has no rows)
EmptyInput == uploaded /\ \A i \in DOMAIN file : ~SessionKeeps(file[i])

C8_ScopedToGroup ==
    Computed =>
        \A cell \in CellsOfDf :
            LET sub == SelectSeq(df, LAMBDA r : CellOf(r) = cell)
                flags == [k \in DOMAIN sub |-> sub[k].prb >= threshold]
            IN  CellColumn(consecutive, cell) = GroupTransform(sub, flags)

\* C8 witness: two congested rows of one pair with a row of another pair of
\* the same site between them
C8_Witness ==
    /\ Computed
    /\ \E i, j, k \in DOMAIN df :
           /\ i < j /\ j < k
           /\ CellOf(df[i]) = CellOf(df[k]) /\ CellOf(df[j]) # CellOf(df[i])
           /\ df[j].site = df[i].site
           /\ congested_flag[i] /\ ~congested_flag[j] /\ congested_flag[k]

\* the consecutive value of a row as its pair's rows in ascending date order
\* give it, computed from the set of rows of the file (no row order)
ByDate(r) ==
    LET kept == {q \in Range(file) : SessionKeeps(q) /\ CellOf(q) = CellOf(r)}
        rank(q) == Cardinality({u \in kept : u.date <= q.date})
        x == [k \in 1..Cardinality(kept) |->
                 (CHOOSE q \in kept : rank(q) = k).prb >= threshold]
    IN  RunLength(x)[rank(r)]

\* C9: with distinct dates within every group, each row's consecutive value is
\* the one its group gives in ascending date order, whatever the row order of
\* the uploaded file
C9_OrderIndependent ==
    (Computed /\ DistinctDates) =>
        \A i \in DOMAIN df : consecutive[i] = ByDate(file[df[i].idx])

\* C9 witness: a file that lists a group's later day first, the two rows
\* differing in congestion
C9_Witness ==
    /\ Computed /\ DistinctDates
    /\ \E i, j \in DOMAIN file :
           /\ i < j /\ CellOf(file[i]) = CellOf(file[j])
           /\ file[i].date > file[j].date
           /\ file[i].prb >= threshold /\ file[j].prb < threshold

\* C10: no row's consecutive exceeds the number of congested rows of its group
\* dated up to and including it; hence none exceeds its group's ranking count
\* (stated for files whose dates are distinct within every group)
C10_BoundedByCongestedRows ==
    /\ (Computed /\ DistinctDates) =>
           \A i \in DOMAIN df :
               consecutive[i] <=
                   Cardinality({j \in DOMAIN df :
                                  /\ CellOf(df[j]) = CellOf(df[i])
                                  /\ df[j].date <= df[i].date
                                  /\ df[j].prb >= threshold})
    /\ pc = "done" =>
           \A i \in DOMAIN df :
               consecutive[i] >= 1 =>
                   \E e \in DOMAIN ranking :
                       /\ <<ranking[e].site, ranking[e].sector>> = CellOf(df[i])
                       /\ consecutive[i] <= ranking[e].congestion_days

====
